---- MODULE Spec2Model ----
(***************************************************************************)
(* Model of the ESP-NOW -> USB HID clutch paddle receiver: the data        *)
(* processor with its calibration engine (data_processor.c) and the        *)
(* dual-axis report sink (main/usb_comm.c).                                *)
(***************************************************************************)
EXTENDS Integers, Sequences, FiniteSets, TLC

\* ------------------------------------------------------------------ bounds
MaxPackets == 2      \* number of packets the transport delivers
MaxTime    == 1      \* the millisecond clock runs from 0 to MaxTime

\* ------------------------------------------------------------------ inputs
\* raw 16-bit words (left, right) the sender may put on the wire
Samples == { <<100, 65535>>, <<200, 50>> }

\* durations passed to start_calibration
Durations == { 1 }

\* ranges an external collaborator may pass to set_calibration (no validation)
SetRanges ==
  { [left_min |-> 100, left_max |-> 100,   right_min |-> 65535, right_max |-> 5000, calibrated |-> TRUE],
    [left_min |-> 10,  left_max |-> 65535, right_min |-> 4000,  right_max |-> 50,   calibrated |-> TRUE] }

NULL == "NULL"
MAC  == "aa:bb:cc:dd:ee:ff"

\* little-endian encoding done by the sender
LE16(w) == << w % 256, w \div 256 >>

WireBytes(s) == LE16(s[1]) \o LE16(s[2])

\* payload lengths: too short (1, 2, 3), exact (4) and with a trailing byte (5)
Lengths == { 1, 2, 3, 4, 5 }

\* the first n bytes of the wire bytes of s followed by trailing bytes
Payload(s, n) == [i \in 1..n |-> IF i <= 4 THEN WireBytes(s)[i] ELSE 170]

\* every sample as a 4-byte payload, and one sample truncated and extended to every length
Payloads ==
  { Payload(s, 4) : s \in Samples } \cup { Payload(<<200, 50>>, n) : n \in Lengths }

\* the data pointer handed to the processor: absent, or a buffer of bytes
NullData == [null |-> TRUE, bytes |-> << >>]
Buffer(bytes) == [null |-> FALSE, bytes |-> bytes]

\* (mac_addr, data, len) triples the transport may pass to the processor
ProcessArgs ==
  { <<MAC, Buffer(p), Len(p)>> : p \in Payloads }
    \cup { <<NULL, Buffer(Payload(<<200, 50>>, 4)), 4>>, <<MAC, NullData, 4>>,
           <<MAC, Buffer(Payload(<<200, 50>>, 4)), 0>>, <<MAC, Buffer(Payload(<<200, 50>>, 4)), -1>> }

\* raw 16-bit words of the normalization runs: the ends of the 12-bit scale, the
\* bounds of the ranges below, values beside and between them, and a word above 4095
NormRaws == { 0, 1, 100, 150, 200, 4094, 4095, 65535 }

\* the same word on both channels, and two samples whose words differ
NormSamples == { <<w, w>> : w \in NormRaws } \cup { <<1, 4095>>, <<65535, 0>> }

\* bytes following the four sample bytes in a payload of the normalization runs
Tails == { << >>, << 170 >>, << 255, 0 >> }

\* (min, max) of one channel: ordered, with max above 4095, one apart, equal, inverted
ChannelRanges ==
  { <<0, 4095>>, <<100, 200>>, <<1, 65535>>, <<4094, 4095>>,
    <<100, 100>>, <<4095, 4095>>, <<200, 100>>, <<4095, 0>> }

\* the ranges set_calibration is called with before the normalization runs
NormRanges ==
  { [left_min |-> l[1], left_max |-> l[2], right_min |-> r[1], right_max |-> r[2],
     calibrated |-> c] : l \in ChannelRanges, r \in ChannelRanges, c \in BOOLEAN }

\* the calibration pointer handed to set_calibration
NullCalib == [null |-> TRUE, value |-> [left_min |-> 0, left_max |-> 0, right_min |-> 0,
                                        right_max |-> 0, calibrated |-> FALSE]]
CalibArgs == { [null |-> FALSE, value |-> r] : r \in SetRanges } \cup { NullCalib }

\* the ghost record of an operation that is no process call
NoCall == [ret |-> "none", called |-> FALSE]

\* the callback main.c registers with the ESP-NOW handler
on_espnow_data_received == "on_espnow_data_received"

\* no process call is in progress; the status task has not polled yet
Idle == [at |-> "idle"]
NoSnapshot == [at |-> "idle"]

\* ------------------------------------------------------------------ state
VARIABLES
  s_is_initialized,            \* data_processor.c statics
  s_total_packets,
  s_total_bytes,
  s_calibration,
  s_is_calibrating,
  s_calibration_start_time,
  s_calibration_duration_ms,
  s_calib_left_min,
  s_calib_left_max,
  s_calib_right_min,
  s_calib_right_max,
  s_is_mounted,                \* usb_comm.c statics
  s_report,
  now,                         \* esp_timer_get_time() / 1000
  call,                        \* ghost: the process call made by the last step (return value,
                               \*        Report Sink invocation), NoCall after any other step
  session,                     \* ghost: clamped samples widened into the running/last session
  delivered,                   \* ghost: number of packets the transport has delivered so far
  frame,                       \* the process call in progress in the receive callback: its
                               \*        position and locals, Idle between calls
  snapshot,                    \* status_task: its position in data_processor_get_stats and
                               \*        its locals total_packets, total_bytes
  boot,                        \* app_main: the call of init_system it is about to make
  espnow_is_initialized,       \* espnow_handler.c statics (its s_is_initialized)
  s_recv_callback

capture == << s_calib_left_min, s_calib_left_max, s_calib_right_min, s_calib_right_max >>

stats == << s_total_packets, s_total_bytes >>

calibration_state == << s_calibration, s_is_calibrating, s_calibration_start_time,
                        s_calibration_duration_ms, capture >>

core == << s_is_initialized, stats, calibration_state >>

usb == << s_is_mounted, s_report >>

espnow == << espnow_is_initialized, s_recv_callback >>

tasks == << frame, snapshot, boot, espnow >>

vars == << core, usb, now, call, session, delivered, tasks >>

Init ==
  /\ s_is_initialized = FALSE
  /\ s_total_packets = 0
  /\ s_total_bytes = 0
  /\ s_calibration = [left_min |-> 0, left_max |-> 4095, right_min |-> 0, right_max |-> 4095,
                      calibrated |-> FALSE]
  /\ s_is_calibrating = FALSE
  /\ s_calibration_start_time = 0
  /\ s_calibration_duration_ms = 0
  /\ s_calib_left_min = 4095
  /\ s_calib_left_max = 0
  /\ s_calib_right_min = 4095
  /\ s_calib_right_max = 0
  /\ s_is_mounted = FALSE
  /\ s_report = [left_clutch |-> 0, right_clutch |-> 0]
  /\ now = 0
  /\ call = NoCall
  /\ session = {}
  /\ delivered = 0
  /\ frame = Idle
  /\ snapshot = NoSnapshot
  /\ boot = "running"
  /\ espnow_is_initialized = TRUE
  /\ s_recv_callback = on_espnow_data_received

\* ------------------------------------------------------------------ helpers
U16(x) == x % 65536

\* conversion to uint32_t of a value that fits a 32-bit int: x mod 2^32
\* (2^32 is written as a sum because the checker's integers are 32 bits wide)
U32(x) == IF x >= 0 THEN x ELSE ((x + 2147483647) + 2147483647) + 2

\* mutant: the two bytes of a word are read in big-endian order
ParseLE_BigEndian(data, i) == U16(data[i] * 256 + data[i + 1])

\* uint16_t v = (data[1] << 8) | data[0], for the word at byte offset i - 1
ParseLE(data, i) == U16(data[i + 1] * 256 + data[i])

\* mutant: the 12-bit clamp is missing
Clamp12_Missing(v) == v

\* v > 4095 ? 4095 : v
Clamp12(v) == IF v > 4095 THEN 4095 ELSE v

\* mutant: the accumulator takes the latest sample instead of the running minimum
WidenMin_Latest(acc, raw) == raw

\* running minimum / maximum of a capture accumulator
WidenMin(acc, raw) == IF raw < acc THEN raw ELSE acc

WidenMax(acc, raw) == IF raw > acc THEN raw ELSE acc

\* mutant: the window ends only strictly after duration_ms
Expired_Strict(t, start_time, duration_ms) == (t - start_time) > duration_ms

\* (now - s_calibration_start_time) >= s_calibration_duration_ms
Expired(t, start_time, duration_ms) == (t - start_time) >= duration_ms

\* mutant: the lower saturation test is raw < min
NormalizeChannel_StrictMin(raw, mn, mx) ==
  IF raw < mn THEN [value |-> 0, divisors |-> {}]
  ELSE IF raw >= mx THEN [value |-> 4095, divisors |-> {}]
  ELSE LET range == U32(mx - mn) IN
       IF range > 0
         THEN [value |-> U16(U32(U32(raw - mn) * 4095) \div range), divisors |-> {range}]
         ELSE [value |-> raw, divisors |-> {}]

\* mutant: a raw value at or above max is reported as max instead of 4095
NormalizeChannel_SaturateToMax(raw, mn, mx) ==
  IF raw <= mn THEN [value |-> 0, divisors |-> {}]
  ELSE IF raw >= mx THEN [value |-> mx, divisors |-> {}]
  ELSE LET range == U32(mx - mn) IN
       IF range > 0
         THEN [value |-> U16(U32(U32(raw - mn) * 4095) \div range), divisors |-> {range}]
         ELSE [value |-> raw, divisors |-> {}]

\* mutant: the product is computed in 16 bits, the uint32_t cast missing
NormalizeChannel_Product16(raw, mn, mx) ==
  IF raw <= mn THEN [value |-> 0, divisors |-> {}]
  ELSE IF raw >= mx THEN [value |-> 4095, divisors |-> {}]
  ELSE LET range == U32(mx - mn) IN
       IF range > 0
         THEN [value |-> U16(U16(U32(raw - mn) * 4095) \div range), divisors |-> {range}]
         ELSE [value |-> raw, divisors |-> {}]

\* mutant: the interpolation measures the distance from max instead of from min
NormalizeChannel_Reversed(raw, mn, mx) ==
  IF raw <= mn THEN [value |-> 0, divisors |-> {}]
  ELSE IF raw >= mx THEN [value |-> 4095, divisors |-> {}]
  ELSE LET range == U32(mx - mn) IN
       IF range > 0
         THEN [value |-> U16(U32(U32(mx - raw) * 4095) \div range), divisors |-> {range}]
         ELSE [value |-> raw, divisors |-> {}]

\* mutant: both saturation tests are strict and the range > 0 guard is missing (the
\* division by 0 is recorded; its result is taken as 0)
NormalizeChannel_Unguarded(raw, mn, mx) ==
  IF raw < mn THEN [value |-> 0, divisors |-> {}]
  ELSE IF raw > mx THEN [value |-> 4095, divisors |-> {}]
  ELSE LET range == U32(mx - mn) IN
       [value |-> IF range = 0 THEN 0 ELSE U16(U32(U32(raw - mn) * 4095) \div range),
        divisors |-> {range}]

\* one channel of the "if (s_calibration.calibrated)" block, the output variable
\* starting as raw: the output value and the divisors of the divisions evaluated
NormalizeChannel(raw, mn, mx) ==
  IF raw <= mn THEN [value |-> 0, divisors |-> {}]
  ELSE IF raw >= mx THEN [value |-> 4095, divisors |-> {}]
  ELSE LET range == U32(mx - mn) IN
       IF range > 0
         THEN [value |-> U16(U32(U32(raw - mn) * 4095) \div range), divisors |-> {range}]
         ELSE [value |-> raw, divisors |-> {}]

\* mutant: the calibrated flag is not consulted
Normalize_FlagIgnored(raw, mn, mx, calibrated) == NormalizeChannel(raw, mn, mx)

\* uint16_t left_clutch = left_clutch_raw; if (s_calibration.calibrated) { ... }
Normalize(raw, mn, mx, calibrated) ==
  IF calibrated THEN NormalizeChannel(raw, mn, mx) ELSE [value |-> raw, divisors |-> {}]

\* ------------------------------------------------------------------ usb_comm.c
\* mutant: the product is computed in 16 bits, the uint32_t cast missing
UsbSendReport_Product16(mounted, ready, report, left_clutch, right_clutch) ==
  IF ~mounted THEN [ret |-> "ESP_ERR_INVALID_STATE", report |-> report]
  ELSE LET left_scaled  == U16(U16(left_clutch * 65535) \div 4095)
           right_scaled == U16(U16(right_clutch * 65535) \div 4095)
           r == [left_clutch |-> left_scaled, right_clutch |-> right_scaled]
       IN IF ready THEN [ret |-> "ESP_OK", report |-> r]
                   ELSE [ret |-> "ESP_ERR_INVALID_STATE", report |-> r]

\* mutant: the mounted flag is tested after the report is stored
UsbSendReport_StoresFirst(mounted, ready, report, left_clutch, right_clutch) ==
  LET left_scaled  == U16(U32(left_clutch * 65535) \div 4095)
      right_scaled == U16(U32(right_clutch * 65535) \div 4095)
      r == [left_clutch |-> left_scaled, right_clutch |-> right_scaled]
  IN IF mounted /\ ready THEN [ret |-> "ESP_OK", report |-> r]
                         ELSE [ret |-> "ESP_ERR_INVALID_STATE", report |-> r]

\* mutant: with the endpoint busy the stored report is kept for a later send
UsbSendReport_KeepsOnBusy(mounted, ready, report, left_clutch, right_clutch) ==
  IF ~mounted THEN [ret |-> "ESP_ERR_INVALID_STATE", report |-> report]
  ELSE LET left_scaled  == U16(U32(left_clutch * 65535) \div 4095)
           right_scaled == U16(U32(right_clutch * 65535) \div 4095)
           r == [left_clutch |-> left_scaled, right_clutch |-> right_scaled]
       IN IF ready THEN [ret |-> "ESP_OK", report |-> r]
                   ELSE [ret |-> "ESP_ERR_INVALID_STATE", report |-> report]

\* usb_comm_send_report: the return value and the stored report afterwards
UsbSendReport(mounted, ready, report, left_clutch, right_clutch) ==
  IF ~mounted THEN [ret |-> "ESP_ERR_INVALID_STATE", report |-> report]
  ELSE LET left_scaled  == U16(U32(left_clutch * 65535) \div 4095)
           right_scaled == U16(U32(right_clutch * 65535) \div 4095)
           r == [left_clutch |-> left_scaled, right_clutch |-> right_scaled]
       IN IF ready THEN [ret |-> "ESP_OK", report |-> r]
                   ELSE [ret |-> "ESP_ERR_INVALID_STATE", report |-> r]

\* bool usb_comm_is_connected(void)
usb_comm_is_connected == s_is_mounted

tud_mount_cb ==
  /\ s_is_mounted' = TRUE
  /\ call' = NoCall
  /\ UNCHANGED << core, s_report, now, session, delivered, tasks >>

tud_umount_cb ==
  /\ s_is_mounted' = FALSE
  /\ call' = NoCall
  /\ UNCHANGED << core, s_report, now, session, delivered, tasks >>

\* ------------------------------------------------------------------ data_processor.c
\* The uint32_t counters are held as the integer with the same 32 bits: 0 .. 2^31 - 1
\* as themselves and 2^31 .. 2^32 - 1 as the value minus 2^32 (4294967295 is -1),
\* the checker's integers being 32 bits wide.  Add32 is the uint32_t sum c + n of
\* a counter c and an n in 0 .. 2^31 - 1: it wraps modulo 2^32.
Add32(c, n) ==
  IF c >= 0 /\ n > 2147483647 - c
    THEN ((c - 2147483647) - 1) + ((n - 2147483647) - 1)
    ELSE c + n

\* s_total_packets++
CountPacket(total_packets) == Add32(total_packets, 1)

\* mutant: the expected packet size is counted instead of the received length
CountBytes_Expected(total_bytes, len) == Add32(total_bytes, 4)

\* s_total_bytes += len
CountBytes(total_bytes, len) == Add32(total_bytes, len)

\* mutant: the Report Sink's return value is propagated to the caller
ProcessReturn_Propagated(sink_ret) == sink_ret

\* the value process returns after the Report Sink returned sink_ret
ProcessReturn(sink_ret) == "ESP_OK"

\* mutant: the arguments are checked before the initialized flag
EntryCheck_ArgsFirst(initialized, mac_addr, data, len) ==
  IF mac_addr = NULL \/ data.null \/ len <= 0 THEN "ESP_ERR_INVALID_ARG"
  ELSE IF ~initialized THEN "ESP_ERR_INVALID_STATE"
  ELSE "ESP_OK"

\* mutant: a length of 0 passes the argument check
EntryCheck_ZeroLength(initialized, mac_addr, data, len) ==
  IF ~initialized THEN "ESP_ERR_INVALID_STATE"
  ELSE IF mac_addr = NULL \/ data.null \/ len < 0 THEN "ESP_ERR_INVALID_ARG"
  ELSE "ESP_OK"

\* the two checks process makes before it counts the packet: the error code it
\* returns, or ESP_OK when it goes on
EntryCheck(initialized, mac_addr, data, len) ==
  IF ~initialized THEN "ESP_ERR_INVALID_STATE"
  ELSE IF mac_addr = NULL \/ data.null \/ len <= 0 THEN "ESP_ERR_INVALID_ARG"
  ELSE "ESP_OK"

\* mutant: the normalization uses the range as it was when the call began
NormalizationRange_AtEntry(entry, current) == entry

\* the range the "if (s_calibration.calibrated)" block reads: s_calibration as the
\* "if (s_is_calibrating)" block before it left it, not as it was at entry
NormalizationRange(entry, current) == current

\* Outcome of data_processor_process_espnow_data in the current state, for a
\* Report Sink whose device is `mounted` and whose HID endpoint is `ready`.
ProcessOutcome(mac_addr, data, len, mounted, ready) ==
  LET same == [ total_packets |-> s_total_packets, total_bytes |-> s_total_bytes,
                calibration |-> s_calibration, is_calibrating |-> s_is_calibrating,
                calib_left_min |-> s_calib_left_min, calib_left_max |-> s_calib_left_max,
                calib_right_min |-> s_calib_right_min, calib_right_max |-> s_calib_right_max,
                report |-> s_report, session |-> session, call |-> NoCall ]
      check == EntryCheck(s_is_initialized, mac_addr, data, len)
  IN
  IF check # "ESP_OK"
    THEN [same EXCEPT !.call = [ret |-> check, called |-> FALSE]]
  ELSE
    LET counted == [same EXCEPT !.total_packets = CountPacket(s_total_packets),
                                !.total_bytes   = CountBytes(s_total_bytes, len)]
    IN
    IF len < 4
      THEN [counted EXCEPT !.call = [ret |-> "ESP_ERR_INVALID_SIZE", called |-> FALSE]]
    ELSE
      LET left_clutch_raw  == Clamp12(ParseLE(data.bytes, 1))
          right_clutch_raw == Clamp12(ParseLE(data.bytes, 3))
          \* if (s_is_calibrating): widen, then check the elapsed time
          lmin == IF s_is_calibrating THEN WidenMin(s_calib_left_min, left_clutch_raw)
                                      ELSE s_calib_left_min
          lmax == IF s_is_calibrating THEN WidenMax(s_calib_left_max, left_clutch_raw)
                                      ELSE s_calib_left_max
          rmin == IF s_is_calibrating THEN WidenMin(s_calib_right_min, right_clutch_raw)
                                      ELSE s_calib_right_min
          rmax == IF s_is_calibrating THEN WidenMax(s_calib_right_max, right_clutch_raw)
                                      ELSE s_calib_right_max
          commit == s_is_calibrating
                      /\ Expired(now, s_calibration_start_time, s_calibration_duration_ms)
          cal == IF commit
                   THEN [left_min |-> lmin, left_max |-> lmax,
                         right_min |-> rmin, right_max |-> rmax, calibrated |-> TRUE]
                   ELSE s_calibration
          used == NormalizationRange(s_calibration, cal)
          l == Normalize(left_clutch_raw, used.left_min, used.left_max, used.calibrated)
          r == Normalize(right_clutch_raw, used.right_min, used.right_max, used.calibrated)
          u == UsbSendReport(mounted, ready, s_report, l.value, r.value)
      IN [counted EXCEPT
            !.calibration = cal,
            !.is_calibrating = s_is_calibrating /\ ~commit,
            !.calib_left_min = lmin, !.calib_left_max = lmax,
            !.calib_right_min = rmin, !.calib_right_max = rmax,
            !.report = u.report,
            !.session = IF s_is_calibrating
                          THEN session \cup { <<left_clutch_raw, right_clutch_raw>> }
                          ELSE session,
            !.call = [ret |-> ProcessReturn(u.ret), called |-> TRUE,
                      left_raw |-> left_clutch_raw, right_raw |-> right_clutch_raw,
                      left |-> l.value, right |-> r.value,
                      left_divisors |-> l.divisors, right_divisors |-> r.divisors,
                      sink_ret |-> u.ret]]

\* the value data_processor_init returns, in either branch
InitReturn == "ESP_OK"

\* mutant: init also ends the running session
data_processor_init_EndsSession ==
  /\ IF s_is_initialized
       THEN UNCHANGED << s_total_packets, s_total_bytes, s_is_initialized, s_is_calibrating >>
       ELSE /\ s_total_packets' = 0
            /\ s_total_bytes' = 0
            /\ s_is_initialized' = TRUE
            /\ s_is_calibrating' = FALSE
  /\ call' = NoCall
  /\ UNCHANGED << s_calibration, s_calibration_start_time, s_calibration_duration_ms,
                  capture, usb, now, session, delivered, tasks >>

\* mutant: init clears the statistics whether or not it was initialized
data_processor_init_AlwaysClears ==
  /\ s_total_packets' = 0
  /\ s_total_bytes' = 0
  /\ s_is_initialized' = TRUE
  /\ call' = NoCall
  /\ UNCHANGED << calibration_state, usb, now, session, delivered, tasks >>

data_processor_init ==
  /\ IF s_is_initialized
       THEN UNCHANGED << s_total_packets, s_total_bytes, s_is_initialized >>
       ELSE /\ s_total_packets' = 0
            /\ s_total_bytes' = 0
            /\ s_is_initialized' = TRUE
  /\ call' = NoCall
  /\ UNCHANGED << calibration_state, usb, now, session, delivered, tasks >>

\* mutant: deinit also clears the statistics
data_processor_deinit_ClearsStats ==
  /\ IF ~s_is_initialized
       THEN UNCHANGED << s_is_initialized, stats >>
       ELSE /\ s_is_initialized' = FALSE
            /\ s_total_packets' = 0
            /\ s_total_bytes' = 0
  /\ call' = NoCall
  /\ UNCHANGED << calibration_state, usb, now, session, delivered, tasks >>

data_processor_deinit ==
  /\ IF ~s_is_initialized
       THEN UNCHANGED s_is_initialized
       ELSE s_is_initialized' = FALSE
  /\ call' = NoCall
  /\ UNCHANGED << stats, calibration_state, usb, now, session, delivered, tasks >>

data_processor_process_espnow_data(mac_addr, data, len, ready) ==
  LET o == ProcessOutcome(mac_addr, data, len, s_is_mounted, ready) IN
  /\ delivered < MaxPackets
  /\ delivered' = delivered + 1
  /\ s_total_packets' = o.total_packets
  /\ s_total_bytes' = o.total_bytes
  /\ s_calibration' = o.calibration
  /\ s_is_calibrating' = o.is_calibrating
  /\ s_calib_left_min' = o.calib_left_min
  /\ s_calib_left_max' = o.calib_left_max
  /\ s_calib_right_min' = o.calib_right_min
  /\ s_calib_right_max' = o.calib_right_max
  /\ s_report' = o.report
  /\ session' = o.session
  /\ call' = o.call
  /\ UNCHANGED << s_is_initialized, s_calibration_start_time, s_calibration_duration_ms,
                  s_is_mounted, now, tasks >>

\* mutant: the running session is not checked
StartCalibrationReturn_Unchecked ==
  IF ~s_is_initialized THEN "ESP_ERR_INVALID_STATE" ELSE "ESP_OK"

\* the value data_processor_start_calibration returns in the current state
StartCalibrationReturn ==
  IF ~s_is_initialized THEN "ESP_ERR_INVALID_STATE"
  ELSE IF s_is_calibrating THEN "ESP_ERR_INVALID_STATE"
  ELSE "ESP_OK"

\* mutant: starting a session also restores the default committed range
data_processor_start_calibration_Resetting(duration_ms) ==
  /\ IF StartCalibrationReturn # "ESP_OK"
       THEN UNCHANGED << capture, s_calibration_duration_ms, s_calibration_start_time,
                         s_is_calibrating, session, s_calibration >>
       ELSE /\ s_calib_left_min' = 4095
            /\ s_calib_left_max' = 0
            /\ s_calib_right_min' = 4095
            /\ s_calib_right_max' = 0
            /\ s_calibration_duration_ms' = duration_ms
            /\ s_calibration_start_time' = now
            /\ s_is_calibrating' = TRUE
            /\ session' = {}
            /\ s_calibration' = [left_min |-> 0, left_max |-> 4095, right_min |-> 0,
                                 right_max |-> 4095, calibrated |-> FALSE]
  /\ call' = NoCall
  /\ UNCHANGED << s_is_initialized, stats, usb, now, delivered, tasks >>

data_processor_start_calibration(duration_ms) ==
  /\ IF StartCalibrationReturn # "ESP_OK"
       THEN UNCHANGED << capture, s_calibration_duration_ms, s_calibration_start_time,
                         s_is_calibrating, session >>
       ELSE /\ s_calib_left_min' = 4095
            /\ s_calib_left_max' = 0
            /\ s_calib_right_min' = 4095
            /\ s_calib_right_max' = 0
            /\ s_calibration_duration_ms' = duration_ms
            /\ s_calibration_start_time' = now
            /\ s_is_calibrating' = TRUE
            /\ session' = {}
  /\ call' = NoCall
  /\ UNCHANGED << s_is_initialized, stats, s_calibration, usb, now, delivered, tasks >>

\* mutant: the running session is not checked
StopCalibrationReturn_Unchecked == "ESP_OK"

\* the value data_processor_stop_calibration returns in the current state
StopCalibrationReturn ==
  IF ~s_is_calibrating THEN "ESP_ERR_INVALID_STATE" ELSE "ESP_OK"

data_processor_stop_calibration ==
  /\ IF StopCalibrationReturn # "ESP_OK"
       THEN UNCHANGED << s_calibration, s_is_calibrating >>
       ELSE /\ s_calibration' = [left_min |-> s_calib_left_min, left_max |-> s_calib_left_max,
                                 right_min |-> s_calib_right_min, right_max |-> s_calib_right_max,
                                 calibrated |-> TRUE]
            /\ s_is_calibrating' = FALSE
  /\ call' = NoCall
  /\ UNCHANGED << s_is_initialized, stats, s_calibration_start_time,
                  s_calibration_duration_ms, capture, usb, now, session, delivered, tasks >>

\* the value data_processor_is_calibrating returns in the current state
IsCalibrating == s_is_calibrating

\* mutant: the getter evaluates the timeout and deactivates an elapsed session
data_processor_is_calibrating_Lazy ==
  /\ s_is_calibrating' =
       (s_is_calibrating
          /\ ~Expired(now, s_calibration_start_time, s_calibration_duration_ms))
  /\ call' = NoCall
  /\ UNCHANGED << s_is_initialized, stats, s_calibration, s_calibration_start_time,
                  s_calibration_duration_ms, capture, usb, now, session, delivered, tasks >>

data_processor_is_calibrating ==
  /\ call' = NoCall
  /\ UNCHANGED << core, usb, now, session, delivered, tasks >>

\* mutant: a range supplied while a session runs is ignored
data_processor_set_calibration_IgnoredInSession(calib) ==
  /\ IF calib.null \/ s_is_calibrating
       THEN UNCHANGED s_calibration
       ELSE s_calibration' = calib.value
  /\ call' = NoCall
  /\ UNCHANGED << s_is_initialized, stats, s_is_calibrating, s_calibration_start_time,
                  s_calibration_duration_ms, capture, usb, now, session, delivered, tasks >>

data_processor_set_calibration(calib) ==
  /\ IF calib.null
       THEN UNCHANGED s_calibration
       ELSE s_calibration' = calib.value
  /\ call' = NoCall
  /\ UNCHANGED << s_is_initialized, stats, s_is_calibrating, s_calibration_start_time,
                  s_calibration_duration_ms, capture, usb, now, session, delivered, tasks >>

\* mutant: only the four bounds are copied out, the calibrated flag is left clear
GetCalibration_BoundsOnly(calib) ==
  IF calib.null THEN calib
  ELSE [null |-> FALSE, value |-> [s_calibration EXCEPT !.calibrated = FALSE]]

\* data_processor_get_calibration: the caller's buffer after the call
GetCalibration(calib) ==
  IF calib.null THEN calib ELSE [null |-> FALSE, value |-> s_calibration]

\* a caller reads the range with get_calibration and writes it back with
\* set_calibration
CalibrationRoundTrip ==
  data_processor_set_calibration(GetCalibration([null |-> FALSE, value |-> NullCalib.value]))

\* mutant: the reset forgets to deactivate the running session
data_processor_reset_calibration_KeepsSession ==
  /\ s_calibration' = [left_min |-> 0, left_max |-> 4095, right_min |-> 0,
                       right_max |-> 4095, calibrated |-> FALSE]
  /\ call' = NoCall
  /\ UNCHANGED << s_is_initialized, stats, s_is_calibrating, s_calibration_start_time,
                  s_calibration_duration_ms, capture, usb, now, session, delivered, tasks >>

data_processor_reset_calibration ==
  /\ s_calibration' = [left_min |-> 0, left_max |-> 4095, right_min |-> 0,
                       right_max |-> 4095, calibrated |-> FALSE]
  /\ s_is_calibrating' = FALSE
  /\ call' = NoCall
  /\ UNCHANGED << s_is_initialized, stats, s_calibration_start_time,
                  s_calibration_duration_ms, capture, usb, now, session, delivered, tasks >>

\* ------------------------------------------------------------------ environment
\* the millisecond clock read through esp_timer_get_time() advances
Tick ==
  /\ now < MaxTime
  /\ now' = now + 1
  /\ call' = NoCall
  /\ UNCHANGED << core, usb, session, delivered, tasks >>

Next ==
  \/ data_processor_init
  \/ data_processor_deinit
  \/ \E a \in ProcessArgs, ready \in (IF s_is_mounted THEN BOOLEAN ELSE {TRUE}) :
       data_processor_process_espnow_data(a[1], a[2], a[3], ready)
  \/ \E duration_ms \in Durations : data_processor_start_calibration(duration_ms)
  \/ data_processor_stop_calibration
  \/ data_processor_is_calibrating
  \/ \E calib \in CalibArgs : data_processor_set_calibration(calib)
  \/ data_processor_reset_calibration
  \/ CalibrationRoundTrip
  \/ tud_mount_cb
  \/ tud_umount_cb
  \/ Tick

Spec == Init /\ [][Next]_vars

\* ------------------------------------------------------------------ normalization runs
\* The state after data_processor_init and data_processor_set_calibration(r), for
\* every range r of NormRanges; from there the transport delivers payloads that
\* carry every sample of NormSamples, with and without trailing bytes.
NormInit ==
  /\ s_is_initialized = TRUE
  /\ s_total_packets = 0
  /\ s_total_bytes = 0
  /\ s_calibration \in NormRanges
  /\ s_is_calibrating = FALSE
  /\ s_calibration_start_time = 0
  /\ s_calibration_duration_ms = 0
  /\ s_calib_left_min = 4095
  /\ s_calib_left_max = 0
  /\ s_calib_right_min = 4095
  /\ s_calib_right_max = 0
  /\ s_is_mounted = FALSE
  /\ s_report = [left_clutch |-> 0, right_clutch |-> 0]
  /\ now = 0
  /\ call = NoCall
  /\ session = {}
  /\ delivered = 0
  /\ frame = Idle
  /\ snapshot = NoSnapshot
  /\ boot = "running"
  /\ espnow_is_initialized = TRUE
  /\ s_recv_callback = on_espnow_data_received

NormNext ==
  \E s \in NormSamples, tail \in Tails :
     data_processor_process_espnow_data(MAC, Buffer(WireBytes(s) \o tail),
                                        4 + Len(tail), TRUE)

NormSpec == NormInit /\ [][NormNext]_vars

\* ------------------------------------------------------------------ long runs
\* The state after data_processor_init and 2^32 - 2 payloads of four bytes
\* processed with the device unmounted: s_total_packets = 2^32 - 2 and
\* s_total_bytes = 4 * (2^32 - 2) mod 2^32 = 2^32 - 8.
LongRunInit ==
  /\ s_is_initialized = TRUE
  /\ s_total_packets = -2
  /\ s_total_bytes = -8
  /\ s_calibration = [left_min |-> 0, left_max |-> 4095, right_min |-> 0, right_max |-> 4095,
                      calibrated |-> FALSE]
  /\ s_is_calibrating = FALSE
  /\ s_calibration_start_time = 0
  /\ s_calibration_duration_ms = 0
  /\ s_calib_left_min = 4095
  /\ s_calib_left_max = 0
  /\ s_calib_right_min = 4095
  /\ s_calib_right_max = 0
  /\ s_is_mounted = FALSE
  /\ s_report = [left_clutch |-> 0, right_clutch |-> 0]
  /\ now = 0
  /\ call = NoCall
  /\ session = {}
  /\ delivered = 0
  /\ frame = Idle
  /\ snapshot = NoSnapshot
  /\ boot = "running"
  /\ espnow_is_initialized = TRUE
  /\ s_recv_callback = on_espnow_data_received

\* the operations of the data processor, the device staying unmounted
LongRunNext ==
  \/ data_processor_init
  \/ data_processor_deinit
  \/ \E a \in ProcessArgs : data_processor_process_espnow_data(a[1], a[2], a[3], TRUE)
  \/ \E duration_ms \in Durations : data_processor_start_calibration(duration_ms)
  \/ data_processor_stop_calibration
  \/ data_processor_is_calibrating
  \/ \E calib \in CalibArgs : data_processor_set_calibration(calib)
  \/ data_processor_reset_calibration
  \/ Tick

LongRunSpec == LongRunInit /\ [][LongRunNext]_vars

\* ------------------------------------------------------------------ reference definitions
SetMin(S) == CHOOSE x \in S : \A y \in S : x <= y

SetMax(S) == CHOOSE x \in S : \A y \in S : x >= y

Lefts(S) == { p[1] : p \in S }

Rights(S) == { p[2] : p \in S }

\* the range whose bounds are the extremes of a non-empty set of (left, right) samples
ExtremesOf(S) ==
  [left_min |-> SetMin(Lefts(S)), left_max |-> SetMax(Lefts(S)),
   right_min |-> SetMin(Rights(S)), right_max |-> SetMax(Rights(S)), calibrated |-> TRUE]

CaptureRange ==
  [left_min |-> s_calib_left_min, left_max |-> s_calib_left_max,
   right_min |-> s_calib_right_min, right_max |-> s_calib_right_max, calibrated |-> TRUE]

\* the clamped linear rescale of section 4.1
NormalizeRef(raw, mn, mx, calibrated) ==
  IF ~calibrated THEN raw
  ELSE IF raw <= mn THEN 0
  ELSE IF raw >= mx THEN 4095
  ELSE ((raw - mn) * 4095) \div (mx - mn)

DefaultRange ==
  [left_min |-> 0, left_max |-> 4095, right_min |-> 0, right_max |-> 4095, calibrated |-> FALSE]

\* the arguments are a present sender, a present payload and the payload's length
ValidArgs(a) == a[1] # NULL /\ ~a[2].null /\ a[3] = Len(a[2].bytes) /\ a[3] >= 1

\* the part of a process outcome that is state of the data processor
CoreOf(o) ==
  << o.total_packets, o.total_bytes, o.calibration, o.is_calibrating,
     o.calib_left_min, o.calib_left_max, o.calib_right_min, o.calib_right_max >>

\* valid arguments whose payload is shorter than one sample, and the others
UndersizedArgs == { a \in ProcessArgs : ValidArgs(a) /\ a[3] \in 1..3 }
FullSizeArgs   == { a \in ProcessArgs : ValidArgs(a) /\ a[3] >= 4 }

\* the smaller of two numbers
Min(x, y) == IF x <= y THEN x ELSE y

\* a process outcome without its byte counter
ExceptBytes(o) == [o EXCEPT !.total_bytes = 0]

\* arguments with an absent sender, an absent payload or a length of 0 or less
InvalidArgs == { a \in ProcessArgs : a[1] = NULL \/ a[2].null \/ a[3] <= 0 }

\* the step is a call of process, with any of the arguments of ProcessArgs
ProcessCalled == delivered' = delivered + 1

\* a < b as uint32_t values, for counters held as Add32 holds them
Below32(a, b) == IF (a >= 0) = (b >= 0) THEN a < b ELSE a >= 0

ErrorCodes == { "ESP_ERR_INVALID_STATE", "ESP_ERR_INVALID_ARG", "ESP_ERR_INVALID_SIZE" }

\* the process call of the last step decoded a sample and invoked the Report Sink
Reported == call.called

\* ------------------------------------------------------------------ claims
\* C1: every pair of values passed to the Report Sink lies in [0,4095], whatever
\* the payload bytes, the calibrated flag and the committed range (ranges written
\* by set_calibration with min > max, min = max or values above 4095 included).
C1_ReportInRange ==
  Reported => (call.left \in 0..4095 /\ call.right \in 0..4095)

\* C1 witness: a report normalized with a set_calibration range whose left max is
\* above 4095 and whose right channel is inverted, the left value interpolated.
C1_Witness ==
  /\ Reported
  /\ s_calibration.calibrated
  /\ s_calibration.left_max > 4095
  /\ s_calibration.right_min > s_calibration.right_max
  /\ call.left_divisors # {}

\* C2 as stated: with calibrated = true and max = min on a channel the output of
\* that channel is 0 for every raw value.
C2_DegenerateAlwaysZero ==
  (Reported /\ s_calibration.calibrated) =>
     /\ (s_calibration.left_max = s_calibration.left_min => call.left = 0)
     /\ (s_calibration.right_max = s_calibration.right_min => call.right = 0)

\* C2 amended: with calibrated = true and max = min on a channel the output of that
\* channel is 0 for raw <= min and 4095 for raw > min, and no division is evaluated.
C2_DegenerateStep ==
  (Reported /\ s_calibration.calibrated) =>
     /\ (s_calibration.left_max = s_calibration.left_min =>
           /\ call.left = (IF call.left_raw <= s_calibration.left_min THEN 0 ELSE 4095)
           /\ call.left_divisors = {})
     /\ (s_calibration.right_max = s_calibration.right_min =>
           /\ call.right = (IF call.right_raw <= s_calibration.right_min THEN 0 ELSE 4095)
           /\ call.right_divisors = {})

\* C2 witness: a raw value above min = max on the left channel is reported as 4095.
C2_Witness ==
  /\ Reported
  /\ s_calibration.calibrated
  /\ s_calibration.left_max = s_calibration.left_min
  /\ call.left_raw > s_calibration.left_min
  /\ call.left = 4095

\* C3: a successful stop_calibration commits the running extremes of the samples
\* processed during the session (minimum/maximum of the clamped left values and of
\* the clamped right values), sets calibrated and leaves the session inactive.
C3_StopCommitsExtremes ==
  [][ (data_processor_stop_calibration /\ StopCalibrationReturn = "ESP_OK" /\ session # {})
        => /\ s_calibration' = ExtremesOf(session)
           /\ ~s_is_calibrating' ]_vars

\* C3 witness: a session of two different samples was committed before its window
\* elapsed, that is by stop_calibration: left 100..200, right 50..4095.
C3_Witness ==
  /\ ~s_is_calibrating
  /\ session = { <<100, 4095>>, <<200, 50>> }
  /\ ~Expired(now, s_calibration_start_time, s_calibration_duration_ms)
  /\ s_calibration = [left_min |-> 100, left_max |-> 200, right_min |-> 50,
                      right_max |-> 4095, calibrated |-> TRUE]

\* C4: a valid sample processed while a session is active first widens the capture
\* accumulators; then, if now - start_time >= duration_ms, the accumulators (that
\* sample included) become the committed range, calibrated becomes true and the
\* session ends; otherwise the committed range and the session stay as they were.
C4_WidenThenTimeout ==
  [][ (Reported' /\ s_is_calibrating)
        => /\ s_calib_left_min'  = SetMin({s_calib_left_min, call'.left_raw})
           /\ s_calib_left_max'  = SetMax({s_calib_left_max, call'.left_raw})
           /\ s_calib_right_min' = SetMin({s_calib_right_min, call'.right_raw})
           /\ s_calib_right_max' = SetMax({s_calib_right_max, call'.right_raw})
           /\ IF now - s_calibration_start_time >= s_calibration_duration_ms
                THEN /\ s_calibration' = CaptureRange'
                     /\ s_calibration'.calibrated
                     /\ ~s_is_calibrating'
                ELSE /\ s_calibration' = s_calibration
                     /\ s_is_calibrating' ]_vars

\* C4 witness: every delivered packet widened the session and the last one, processed
\* when the window had elapsed, committed the extremes of both samples.
C4_Witness ==
  /\ Reported
  /\ ~s_is_calibrating
  /\ delivered = 2
  /\ Cardinality(session) = 2
  /\ s_calibration_duration_ms = 1
  /\ now - s_calibration_start_time >= s_calibration_duration_ms
  /\ s_calibration = ExtremesOf(session)

\* C5: start_calibration leaves the committed range and the calibrated flag as they
\* are, and so does every step of the running session other than set_calibration
\* (reset_calibration ends the session); a packet processed while the session stays
\* active is normalized with that unchanged range.
C5_StartKeepsCommittedRange ==
  [][ /\ (\E d \in Durations : data_processor_start_calibration(d))
            => s_calibration' = s_calibration
      /\ (s_is_calibrating /\ s_is_calibrating'
            /\ ~(\E c \in CalibArgs : data_processor_set_calibration(c)))
            => /\ s_calibration' = s_calibration
               /\ Reported' =>
                    /\ call'.left = NormalizeRef(call'.left_raw, s_calibration.left_min,
                                                 s_calibration.left_max, s_calibration.calibrated)
                    /\ call'.right = NormalizeRef(call'.right_raw, s_calibration.right_min,
                                                  s_calibration.right_max, s_calibration.calibrated)
    ]_vars

\* C5 witness: a packet processed in a running session was normalized with the range
\* a previous session had committed.
C5_Witness ==
  /\ Reported
  /\ s_is_calibrating
  /\ s_calibration.calibrated
  /\ s_calibration \notin SetRanges
  /\ call.left # call.left_raw

\* C6: start_calibration while a session is active returns the error and changes
\* neither the committed range, the calibrated flag, the capture accumulators, the
\* start time, the duration nor the active flag.
C6_StartWhileActiveRejected ==
  [][ ((\E d \in Durations : data_processor_start_calibration(d)) /\ s_is_calibrating)
        => /\ StartCalibrationReturn = "ESP_ERR_INVALID_STATE"
           /\ UNCHANGED calibration_state ]_vars

\* C6 witness: an initialized subsystem with a running session that has widened its
\* accumulators, where start_calibration returns the error.
C6_Witness ==
  /\ s_is_initialized
  /\ s_is_calibrating
  /\ session # {}
  /\ s_calib_left_min # 4095
  /\ StartCalibrationReturn = "ESP_ERR_INVALID_STATE"

\* C7: reset_calibration in any state leaves the committed range at the defaults,
\* calibrated = false and the session inactive, copies no capture accumulator, and
\* a second call in a row changes nothing.
C7_ResetRestoresDefaults ==
  [][ data_processor_reset_calibration
        => /\ s_calibration' = DefaultRange
           /\ ~s_is_calibrating'
           /\ UNCHANGED << s_is_initialized, stats, capture, s_calibration_start_time,
                           s_calibration_duration_ms >>
           /\ (s_calibration = DefaultRange /\ ~s_is_calibrating) => UNCHANGED core ]_vars

\* C7 witness: a session that had widened its accumulators ended before its window
\* elapsed and the committed range is the default one.
C7_Witness ==
  /\ s_calibration = DefaultRange
  /\ ~s_is_calibrating
  /\ session # {}
  /\ s_calib_left_min # 4095
  /\ ~Expired(now, s_calibration_start_time, s_calibration_duration_ms)
  /\ call = NoCall

\* C8: a payload of length 1, 2 or 3 on an initialized subsystem returns InvalidSize,
\* adds 1 to total_packets and the length to total_bytes, sends no report and leaves
\* the calibration state (accumulators, committed range, session) untouched.
C8_UndersizedCountedAndDropped ==
  [][ \A a \in UndersizedArgs : \A ready \in BOOLEAN :
        ( /\ s_is_initialized
          /\ data_processor_process_espnow_data(a[1], a[2], a[3], ready) )
        => /\ call'.ret = "ESP_ERR_INVALID_SIZE"
           /\ ~call'.called
           /\ s_total_packets' = s_total_packets + 1
           /\ s_total_bytes' = s_total_bytes + a[3]
           /\ UNCHANGED << s_is_initialized, calibration_state, s_report >> ]_vars

\* C8 witness: a 3-byte payload was counted and dropped while a session whose window
\* had elapsed stayed active.
C8_Witness ==
  /\ call.ret = "ESP_ERR_INVALID_SIZE"
  /\ s_total_packets = 1
  /\ s_total_bytes = 3
  /\ s_is_calibrating
  /\ Expired(now, s_calibration_start_time, s_calibration_duration_ms)
  /\ session = {}

\* C9: process on a valid payload of 4 or more bytes returns success whether the
\* Report Sink accepts or rejects the report, and the resulting state of the data
\* processor is the same in both cases.
C9_SinkOutcomeIrrelevant ==
  /\ Reported => call.ret = "ESP_OK"
  /\ s_is_initialized =>
       \A a \in FullSizeArgs :
          LET accepted == ProcessOutcome(a[1], a[2], a[3], TRUE, TRUE)
              outcome  == CoreOf(accepted)
          IN /\ accepted.call.sink_ret = "ESP_OK"
             /\ accepted.call.ret = "ESP_OK"
             /\ \A mounted \in BOOLEAN, ready \in BOOLEAN :
                   ~(mounted /\ ready) =>
                      LET rejected == ProcessOutcome(a[1], a[2], a[3], mounted, ready)
                      IN /\ rejected.call.sink_ret # "ESP_OK"
                         /\ rejected.call.ret = "ESP_OK"
                         /\ CoreOf(rejected) = outcome

\* C9 witness: the Report Sink rejected a report, the call returned success and the
\* sample was widened into the running session.
C9_Witness ==
  /\ Reported
  /\ call.sink_ret = "ESP_ERR_INVALID_STATE"
  /\ call.ret = "ESP_OK"
  /\ s_is_calibrating
  /\ << call.left_raw, call.right_raw >> \in session

\* C10: an active session ends only in a process call that decodes a sample, in
\* stop_calibration or in reset_calibration: the clock advancing changes nothing,
\* and a process call that fails leaves the calibration state as it is.
C10_OnlyCallsEndSession ==
  [][ /\ (IsCalibrating /\ ~IsCalibrating')
            => \/ Reported'
               \/ data_processor_stop_calibration
               \/ data_processor_reset_calibration
      /\ Tick => UNCHANGED core
      /\ call'.ret \in ErrorCodes => UNCHANGED calibration_state ]_vars

\* C10 witness: a sample was widened into the session, the clock then reached
\* start_time + duration_ms, a failed process call has just returned and the session
\* is still active.
C10_Witness ==
  /\ IsCalibrating
  /\ session # {}
  /\ now >= s_calibration_start_time + s_calibration_duration_ms
  /\ call.ret = "ESP_ERR_INVALID_SIZE"

\* C11: with calibrated = true and max > min on a channel, every raw value at or
\* below min is reported as 0 and every raw value at or above max as 4095, raw = min
\* and raw = max included.
C11_SaturatesAtBounds ==
  (Reported /\ s_calibration.calibrated) =>
     /\ s_calibration.left_max > s_calibration.left_min =>
          /\ call.left_raw <= s_calibration.left_min => call.left = 0
          /\ call.left_raw >= s_calibration.left_max => call.left = 4095
     /\ s_calibration.right_max > s_calibration.right_min =>
          /\ call.right_raw <= s_calibration.right_min => call.right = 0
          /\ call.right_raw >= s_calibration.right_max => call.right = 4095

\* C11 witness: the left raw value equals a left min above 0 and is reported as 0, the
\* right raw value equals the right max and is reported as 4095, both with max > min.
C11_Witness ==
  /\ Reported
  /\ s_calibration.calibrated
  /\ s_calibration.left_max > s_calibration.left_min
  /\ s_calibration.right_max > s_calibration.right_min
  /\ s_calibration.left_min > 0
  /\ call.left_raw = s_calibration.left_min
  /\ call.left = 0
  /\ call.right_raw = s_calibration.right_max
  /\ call.right = 4095

\* C12: with calibrated = true and min < raw < max on a channel the reported value
\* is floor((raw - min) * 4095 / (max - min)), and the product (raw - min) * 4095
\* is below 2^32 (its quotient by 2^16 is below 2^16).
C12_InterpolatesFloor ==
  (Reported /\ s_calibration.calibrated) =>
     /\ (s_calibration.left_min < call.left_raw /\ call.left_raw < s_calibration.left_max) =>
          /\ call.left = ((call.left_raw - s_calibration.left_min) * 4095)
                            \div (s_calibration.left_max - s_calibration.left_min)
          /\ ((call.left_raw - s_calibration.left_min) * 4095) \div 65536 < 65536
     /\ (s_calibration.right_min < call.right_raw /\ call.right_raw < s_calibration.right_max) =>
          /\ call.right = ((call.right_raw - s_calibration.right_min) * 4095)
                             \div (s_calibration.right_max - s_calibration.right_min)
          /\ ((call.right_raw - s_calibration.right_min) * 4095) \div 65536 < 65536

\* C12 witness: the largest raw value, 4095, lies inside the left range 1..65535 and
\* is reported as 255, the quotient of 4094 * 4095 by 65534 rounded down.
C12_Witness ==
  /\ Reported
  /\ s_calibration.calibrated
  /\ s_calibration.left_min = 1
  /\ s_calibration.left_max = 65535
  /\ call.left_raw = 4095
  /\ call.left = 255
  /\ (4094 * 4095) % 65534 # 0

\* C13: with calibrated = false the values passed to the Report Sink are the clamped
\* raw values of the two channels, whatever min and max are stored.
C13_UncalibratedIdentity ==
  (Reported /\ ~s_calibration.calibrated) =>
     /\ call.left = call.left_raw
     /\ call.right = call.right_raw

\* C13 witness: with calibrated = false, an inverted left range and a degenerate
\* right range stored, the raw value 150 is reported as 150 on both channels.
C13_Witness ==
  /\ Reported
  /\ ~s_calibration.calibrated
  /\ s_calibration.left_min > s_calibration.left_max
  /\ s_calibration.right_min = s_calibration.right_max
  /\ call.left_raw = 150
  /\ call.left = 150
  /\ call.right = 150

\* C14: for the committed range and calibrated flag of any state, normalization is
\* monotone: the outputs of the last process call and of any process call that
\* follows it are ordered as their raw values are, on both channels, for ordered,
\* degenerate and inverted ranges alike.
C14_Monotone ==
  Reported =>
    \A s \in NormSamples :
       LET o == ProcessOutcome(MAC, Buffer(WireBytes(s)), 4, s_is_mounted, TRUE).call
       IN /\ o.called
          /\ call.left_raw <= o.left_raw => call.left <= o.left
          /\ o.left_raw <= call.left_raw => o.left <= call.left
          /\ call.right_raw <= o.right_raw => call.right <= o.right
          /\ o.right_raw <= call.right_raw => o.right <= call.right

\* C14 witness: a report made with the left range 0..4095 and an inverted right
\* range: the left outputs of 1, 100 and 4094 rise strictly, the right output steps
\* from 0 at raw = min to 4095 above it.
C14_Witness ==
  /\ Reported
  /\ s_calibration.calibrated
  /\ s_calibration.left_min = 0
  /\ s_calibration.left_max = 4095
  /\ s_calibration.right_min > s_calibration.right_max
  /\ call.left_raw = 100
  /\ Normalize(1, 0, 4095, TRUE).value < call.left
  /\ call.left < Normalize(4094, 0, 4095, TRUE).value
  /\ Normalize(200, s_calibration.right_min, s_calibration.right_max, TRUE).value = 0
  /\ Normalize(4094, s_calibration.right_min, s_calibration.right_max, TRUE).value = 4095

\* C15: every divisor of an interpolation division that a process call evaluates is
\* strictly positive, and with max <= min on a channel of the committed range no
\* division is evaluated for that channel.
C15_DivisorPositive ==
  Reported =>
     /\ \A d \in call.left_divisors \cup call.right_divisors : d > 0
     /\ s_calibration.left_max <= s_calibration.left_min => call.left_divisors = {}
     /\ s_calibration.right_max <= s_calibration.right_min => call.right_divisors = {}

\* C15 witness: one call divides by 65525 on the left channel and, its right range
\* being inverted, evaluates no division on the right channel.
C15_Witness ==
  /\ Reported
  /\ s_calibration.calibrated
  /\ call.left_divisors = { 65525 }
  /\ s_calibration.right_max <= s_calibration.right_min
  /\ call.right_divisors = {}

C17_UninitializedRejected ==
  [][ (~s_is_initialized /\ ProcessCalled)
        => /\ call'.ret = "ESP_ERR_INVALID_STATE"
           /\ ~call'.called
           /\ UNCHANGED << core, usb, session >> ]_vars

\* C17 witness: after a deinit, a process call was rejected while a session that
\* holds one sample and whose window had elapsed stayed active, one packet counted.
C17_Witness ==
  /\ ~s_is_initialized
  /\ call.ret = "ESP_ERR_INVALID_STATE"
  /\ s_is_calibrating
  /\ session # {}
  /\ Expired(now, s_calibration_start_time, s_calibration_duration_ms)
  /\ s_total_packets = 1

\* C18: process on an initialized subsystem with an absent sender, an absent payload
\* or a length of 0 or less returns ESP_ERR_INVALID_ARG, sends no report and leaves
\* total_packets, total_bytes and the calibration state unchanged.
C18_InvalidArgsRejected ==
  [][ \A a \in InvalidArgs : \A ready \in BOOLEAN :
        ( /\ s_is_initialized
          /\ data_processor_process_espnow_data(a[1], a[2], a[3], ready) )
        => /\ call'.ret = "ESP_ERR_INVALID_ARG"
           /\ ~call'.called
           /\ UNCHANGED << core, usb, session >> ]_vars

\* C18 witness: a call with invalid arguments was rejected on an initialized
\* subsystem whose session holds one sample and whose window had elapsed; the one
\* packet counted before is the only one counted.
C18_Witness ==
  /\ s_is_initialized
  /\ call.ret = "ESP_ERR_INVALID_ARG"
  /\ s_is_calibrating
  /\ session # {}
  /\ Expired(now, s_calibration_start_time, s_calibration_duration_ms)
  /\ s_total_packets = 1

\* C19: stop_calibration with no session active returns ESP_ERR_INVALID_STATE and
\* leaves the committed range, the calibrated flag and the capture accumulators
\* unchanged; a stop after the commit by timeout commits nothing a second time.
C19_StopWithoutSessionRejected ==
  [][ (~s_is_calibrating /\ data_processor_stop_calibration)
        => /\ StopCalibrationReturn = "ESP_ERR_INVALID_STATE"
           /\ UNCHANGED << s_calibration, capture, s_is_calibrating >> ]_vars

\* C19 witness: the session was committed by timeout and the committed range was
\* reset afterwards, so that a second commit of the accumulators would show; stop is
\* rejected there.
C19_Witness ==
  /\ ~s_is_calibrating
  /\ session # {}
  /\ Expired(now, s_calibration_start_time, s_calibration_duration_ms)
  /\ s_calibration = DefaultRange
  /\ CaptureRange = ExtremesOf(session)
  /\ StopCalibrationReturn = "ESP_ERR_INVALID_STATE"
  /\ call = NoCall

\* C20 as stated: total_packets and total_bytes never decrease from one state to the
\* next except in an init call, which sets both to 0.
C20_CountersNeverDecrease ==
  [][ (Below32(s_total_packets', s_total_packets) \/ Below32(s_total_bytes', s_total_bytes))
        => (data_processor_init /\ s_total_packets' = 0 /\ s_total_bytes' = 0) ]_vars

\* C20 amended: total_packets and total_bytes decrease only in an init call, which
\* sets both to 0, or in a process call that counts its packet and wraps the 32-bit
\* counter: total_packets from 2^32 - 1 to 0, total_bytes by its length past 2^32.
C20_CountersDecreaseByInitOrWrap ==
  [][ /\ Below32(s_total_packets', s_total_packets)
           => \/ data_processor_init /\ s_total_packets' = 0 /\ s_total_bytes' = 0
              \/ /\ ProcessCalled
                 /\ call'.ret \in { "ESP_OK", "ESP_ERR_INVALID_SIZE" }
                 /\ s_total_packets = -1
                 /\ s_total_packets' = 0
      /\ Below32(s_total_bytes', s_total_bytes)
           => \/ data_processor_init /\ s_total_packets' = 0 /\ s_total_bytes' = 0
              \/ /\ ProcessCalled
                 /\ call'.ret \in { "ESP_OK", "ESP_ERR_INVALID_SIZE" }
                 /\ s_total_bytes < 0
                 /\ s_total_bytes' >= 0
                 /\ s_total_bytes' - s_total_bytes \in { a[3] : a \in ProcessArgs } ]_vars

\* C20 witness: the packet counted last took total_packets from 2^32 - 1 to 0 and,
\* being five bytes long, total_bytes from 2^32 - 4 to 1.
C20_Witness ==
  /\ s_is_initialized
  /\ Reported
  /\ s_total_packets = 0
  /\ s_total_bytes = 1

\* C21: a process call invokes the Report Sink exactly once when it returns ESP_OK
\* and not at all when it returns an error; the report carries the values of the
\* packet of that call, normalized with the committed range, and a mounted device
\* stores the scaled values of that packet, never those of an earlier report.
C21_OneReportPerSuccess ==
  /\ call # NoCall => (call.called <=> call.ret = "ESP_OK")
  /\ call.ret \in ErrorCodes => ~call.called
  /\ Reported =>
       /\ call.left = NormalizeRef(call.left_raw, s_calibration.left_min,
                                   s_calibration.left_max, s_calibration.calibrated)
       /\ call.right = NormalizeRef(call.right_raw, s_calibration.right_min,
                                    s_calibration.right_max, s_calibration.calibrated)
       /\ s_is_mounted =>
            s_report = [left_clutch |-> (call.left * 65535) \div 4095,
                        right_clutch |-> (call.right * 65535) \div 4095]

\* C21 witness: the second of two counted packets was passed to a mounted device
\* whose endpoint was busy, and the stored report holds the scaled values of that
\* packet.
C21_Witness ==
  /\ Reported
  /\ s_is_mounted
  /\ call.sink_ret = "ESP_ERR_INVALID_STATE"
  /\ s_total_packets = 2
  /\ call.left # call.right
  /\ s_report.left_clutch = (call.left * 65535) \div 4095

\* C22: set_calibration called with the range get_calibration returned changes
\* nothing: committed range, calibrated flag, session flag, start time, duration,
\* capture accumulators, counters and the stored report stay as they are, in a
\* running session too.
C22_GetSetRoundTrip ==
  [][ CalibrationRoundTrip => UNCHANGED << core, usb, session >> ]_vars

\* C22 witness: a second session is running and holds a sample while the committed
\* range is the calibrated one of the first session, no set_calibration range.
C22_Witness ==
  /\ s_is_calibrating
  /\ session # {}
  /\ s_calibration.calibrated
  /\ s_calibration \notin SetRanges
  /\ call = NoCall

\* C23: usb_comm_send_report returns ESP_OK exactly when the device is mounted and
\* the HID endpoint is ready; with the device not mounted it fails and leaves the
\* stored report as it is; usb_comm_is_connected is true after the mount callback
\* and false after the unmount callback.
C23_SendNeedsMountedAndReady ==
  [][ /\ \A ready \in BOOLEAN :
           UsbSendReport(s_is_mounted, ready, s_report, 4095, 0).ret = "ESP_OK"
              <=> (s_is_mounted /\ ready)
      /\ Reported' =>
           /\ call'.sink_ret = "ESP_OK" => s_is_mounted
           /\ ~s_is_mounted => /\ call'.sink_ret = "ESP_ERR_INVALID_STATE"
                               /\ s_report' = s_report
      /\ tud_mount_cb => usb_comm_is_connected'
      /\ tud_umount_cb => ~usb_comm_is_connected' ]_vars

\* C23 witness: a report was refused by an unmounted device that still stores the
\* report of an earlier packet, not the values of the refused one.
C23_Witness ==
  /\ Reported
  /\ ~usb_comm_is_connected
  /\ call.sink_ret = "ESP_ERR_INVALID_STATE"
  /\ s_report # [left_clutch |-> 0, right_clutch |-> 0]
  /\ s_report # [left_clutch |-> (call.left * 65535) \div 4095,
                  right_clutch |-> (call.right * 65535) \div 4095]

\* the committed range has its bounds in order on both channels
RangeOrdered(c) == c.left_min <= c.left_max /\ c.right_min <= c.right_max

\* C24: whenever a session commits, by timeout in process or by stop_calibration,
\* the committed range satisfies left_min <= left_max and right_min <= right_max.
C24_CommitOrdered ==
  [][ (/\ s_is_calibrating /\ ~s_is_calibrating'
       /\ (ProcessCalled \/ data_processor_stop_calibration))
        => RangeOrdered(s_calibration') ]_vars

\* ------------------------------------------------------------------ interleaved runs
\* The receive callback runs data_processor_process_espnow_data statement by
\* statement while status_task polls data_processor_get_stats and another context
\* calls the calibration API: nothing in data_processor.c locks the statics.
\* The state after data_processor_init.
RaceInit ==
  /\ s_is_initialized = TRUE
  /\ s_total_packets = 0
  /\ s_total_bytes = 0
  /\ s_calibration = [left_min |-> 0, left_max |-> 4095, right_min |-> 0, right_max |-> 4095,
                      calibrated |-> FALSE]
  /\ s_is_calibrating = FALSE
  /\ s_calibration_start_time = 0
  /\ s_calibration_duration_ms = 0
  /\ s_calib_left_min = 4095
  /\ s_calib_left_max = 0
  /\ s_calib_right_min = 4095
  /\ s_calib_right_max = 0
  /\ s_is_mounted = FALSE
  /\ s_report = [left_clutch |-> 0, right_clutch |-> 0]
  /\ now = 0
  /\ call = NoCall
  /\ session = {}
  /\ delivered = 0
  /\ frame = Idle
  /\ snapshot = NoSnapshot
  /\ boot = "running"
  /\ espnow_is_initialized = TRUE
  /\ s_recv_callback = on_espnow_data_received

\* process, from its entry to "s_total_packets++"
ProcessEnter(mac_addr, data, len) ==
  LET check == EntryCheck(s_is_initialized, mac_addr, data, len) IN
  /\ frame.at = "idle"
  /\ delivered < MaxPackets
  /\ delivered' = delivered + 1
  /\ IF check # "ESP_OK"
       THEN /\ call' = [ret |-> check, called |-> FALSE]
            /\ UNCHANGED << s_total_packets, frame >>
       ELSE /\ s_total_packets' = CountPacket(s_total_packets)
            /\ frame' = [at |-> "count_bytes", data |-> data, len |-> len,
                         entry_capture |-> capture]
            /\ call' = NoCall
  /\ UNCHANGED << s_is_initialized, s_total_bytes, calibration_state, usb, now, session,
                  snapshot, boot, espnow >>

\* process, "s_total_bytes += len", the size check, the parse and the clamp
ProcessCountBytes ==
  /\ frame.at = "count_bytes"
  /\ s_total_bytes' = CountBytes(s_total_bytes, frame.len)
  /\ IF frame.len < 4
       THEN /\ frame' = Idle
            /\ call' = [ret |-> "ESP_ERR_INVALID_SIZE", called |-> FALSE]
       ELSE /\ frame' = [at |-> "widen",
                         left_clutch_raw  |-> Clamp12(ParseLE(frame.data.bytes, 1)),
                         right_clutch_raw |-> Clamp12(ParseLE(frame.data.bytes, 3)),
                         entry_capture |-> frame.entry_capture, field |-> 0]
            /\ call' = NoCall
  /\ UNCHANGED << s_is_initialized, s_total_packets, calibration_state, usb, now, session,
                  delivered, snapshot, boot, espnow >>

\* process, the "if (s_is_calibrating)" block up to the elapsed-time test
ProcessWiden ==
  /\ frame.at = "widen"
  /\ IF s_is_calibrating
       THEN /\ s_calib_left_min'  = WidenMin(s_calib_left_min, frame.left_clutch_raw)
            /\ s_calib_left_max'  = WidenMax(s_calib_left_max, frame.left_clutch_raw)
            /\ s_calib_right_min' = WidenMin(s_calib_right_min, frame.right_clutch_raw)
            /\ s_calib_right_max' = WidenMax(s_calib_right_max, frame.right_clutch_raw)
            /\ session' = session \cup { << frame.left_clutch_raw, frame.right_clutch_raw >> }
            /\ frame' = IF Expired(now, s_calibration_start_time, s_calibration_duration_ms)
                          THEN [frame EXCEPT !.at = "commit", !.field = 1]
                          ELSE [frame EXCEPT !.at = "send"]
       ELSE /\ frame' = [frame EXCEPT !.at = "send"]
            /\ UNCHANGED << capture, session >>
  /\ call' = NoCall
  /\ UNCHANGED << s_is_initialized, stats, s_calibration, s_is_calibrating,
                  s_calibration_start_time, s_calibration_duration_ms, usb, now,
                  delivered, snapshot, boot, espnow >>

\* process, one of the six assignments that save the captured range
ProcessCommit ==
  /\ frame.at = "commit"
  /\ s_calibration' =
       CASE frame.field = 1 -> [s_calibration EXCEPT !.left_min = s_calib_left_min]
         [] frame.field = 2 -> [s_calibration EXCEPT !.left_max = s_calib_left_max]
         [] frame.field = 3 -> [s_calibration EXCEPT !.right_min = s_calib_right_min]
         [] frame.field = 4 -> [s_calibration EXCEPT !.right_max = s_calib_right_max]
         [] frame.field = 5 -> [s_calibration EXCEPT !.calibrated = TRUE]
         [] OTHER -> s_calibration
  /\ s_is_calibrating' = IF frame.field = 6 THEN FALSE ELSE s_is_calibrating
  /\ frame' = IF frame.field = 6 THEN [frame EXCEPT !.at = "send"]
                                 ELSE [frame EXCEPT !.field = frame.field + 1]
  /\ call' = NoCall
  /\ UNCHANGED << s_is_initialized, stats, s_calibration_start_time,
                  s_calibration_duration_ms, capture, usb, now, session, delivered,
                  snapshot, boot, espnow >>

\* process, the normalization, the call of usb_comm_send_report and the return
ProcessSend ==
  LET l == Normalize(frame.left_clutch_raw, s_calibration.left_min, s_calibration.left_max,
                     s_calibration.calibrated)
      r == Normalize(frame.right_clutch_raw, s_calibration.right_min,
                     s_calibration.right_max, s_calibration.calibrated)
      u == UsbSendReport(s_is_mounted, TRUE, s_report, l.value, r.value)
  IN
  /\ frame.at = "send"
  /\ s_report' = u.report
  /\ call' = [ret |-> ProcessReturn(u.ret), called |-> TRUE,
              left_raw |-> frame.left_clutch_raw, right_raw |-> frame.right_clutch_raw,
              left |-> l.value, right |-> r.value,
              left_divisors |-> l.divisors, right_divisors |-> r.divisors,
              sink_ret |-> u.ret]
  /\ frame' = Idle
  /\ UNCHANGED << core, s_is_mounted, now, session, delivered, snapshot, boot, espnow >>

\* status_task in data_processor_get_stats: *total_packets = s_total_packets
StatusReadPackets ==
  /\ snapshot.at \in { "idle", "done" }
  /\ snapshot' = [at |-> "read_bytes", total_packets |-> s_total_packets]
  /\ call' = NoCall
  /\ UNCHANGED << core, usb, now, session, delivered, frame, boot, espnow >>

\* status_task in data_processor_get_stats: *total_bytes = s_total_bytes
StatusReadBytes ==
  /\ snapshot.at = "read_bytes"
  /\ snapshot' = [at |-> "done", total_packets |-> snapshot.total_packets,
                  total_bytes |-> s_total_bytes]
  /\ call' = NoCall
  /\ UNCHANGED << core, usb, now, session, delivered, frame, boot, espnow >>

RaceNext ==
  \/ \E a \in ProcessArgs : ProcessEnter(a[1], a[2], a[3])
  \/ ProcessCountBytes
  \/ ProcessWiden
  \/ ProcessCommit
  \/ ProcessSend
  \/ StatusReadPackets
  \/ StatusReadBytes
  \/ frame.at = "idle" /\ \E duration_ms \in Durations :
                             data_processor_start_calibration(duration_ms)
  \/ data_processor_stop_calibration
  \/ \E calib \in CalibArgs : data_processor_set_calibration(calib)
  \/ data_processor_reset_calibration
  \/ Tick

RaceSpec == RaceInit /\ [][RaceNext]_vars

\* C25: every (total_packets, total_bytes) pair the status task obtains from
\* get_stats while packets are being received is a pair the counters held between
\* two process calls: total_bytes >= total_packets in every snapshot.
C25_SnapshotConsistent ==
  snapshot.at = "done" => snapshot.total_bytes >= snapshot.total_packets

\* the ranges a serial execution of a committing process call and of calls of
\* set_calibration, reset_calibration and stop_calibration can leave committed
SerialRanges ==
  SetRanges
    \cup { DefaultRange, CaptureRange,
           [left_min |-> frame.entry_capture[1], left_max |-> frame.entry_capture[2],
            right_min |-> frame.entry_capture[3], right_max |-> frame.entry_capture[4],
            calibrated |-> TRUE] }

\* C26: when reset_calibration, stop_calibration or set_calibration runs in another
\* context during a process call that commits a session, the range committed when
\* the call returns is the one a serial order of the calls produces, never a mix
\* of fields written by different calls.
C26_NoMixedRange ==
  [][ (frame.at = "send" /\ frame.field = 6 /\ frame'.at = "idle")
        => s_calibration' \in SerialRanges ]_vars

\* ------------------------------------------------------------------ fair runs
\* The subsystem stays initialized, the clock keeps advancing and full-size packets
\* keep arriving.  The clock stops at MaxTime and the transport at MaxPackets, so
\* a session is started only while its window ends by MaxTime, and the last packet
\* is kept for one that arrives after the window of the running session elapsed.
WindowElapsed ==
  s_is_calibrating /\ Expired(now, s_calibration_start_time, s_calibration_duration_ms)

Delivery(a) ==
  /\ delivered < MaxPackets - 1 \/ (WindowElapsed /\ a \in FullSizeArgs)
  /\ data_processor_process_espnow_data(a[1], a[2], a[3], TRUE)

ValidDelivery == \E a \in FullSizeArgs : Delivery(a)

FairStart ==
  \E duration_ms \in Durations :
     /\ now + duration_ms <= MaxTime
     /\ delivered < MaxPackets
     /\ data_processor_start_calibration(duration_ms)

FairNext ==
  \/ \E a \in ProcessArgs : Delivery(a)
  \/ FairStart
  \/ data_processor_stop_calibration
  \/ data_processor_is_calibrating
  \/ \E calib \in CalibArgs : data_processor_set_calibration(calib)
  \/ data_processor_reset_calibration
  \/ Tick

FairSpec == RaceInit /\ [][FairNext]_vars /\ WF_vars(Tick) /\ WF_vars(ValidDelivery)

\* C27: while the subsystem stays initialized, the clock advances and full-size
\* packets keep being processed, every running session eventually becomes
\* inactive, and the step that ends it leaves calibrated = true unless that step
\* is reset_calibration.
C27_SessionEnds ==
  /\ s_is_calibrating ~> ~s_is_calibrating
  /\ [][ (s_is_calibrating /\ ~s_is_calibrating')
           => (s_calibration'.calibrated \/ data_processor_reset_calibration) ]_vars

\* C27 witness: a session that saw samples was ended by the timeout commit of a
\* process call.
C27_Witness ==
  /\ Reported
  /\ ~s_is_calibrating
  /\ session # {}
  /\ s_calibration = CaptureRange
  /\ now >= s_calibration_start_time + s_calibration_duration_ms
  /\ s_calibration_duration_ms > 0

\* C28: the packet whose processing ends the session by timeout is normalized with
\* the range that same call commits, calibrated = true; when it is the only sample
\* of the session both channels are reported as 0.
C28_CommitThenNormalize ==
  [][ (ProcessCalled /\ Reported' /\ s_is_calibrating /\ ~s_is_calibrating')
        => /\ s_calibration'.calibrated
           /\ call'.left = NormalizeRef(call'.left_raw, s_calibration'.left_min,
                                        s_calibration'.left_max, TRUE)
           /\ call'.right = NormalizeRef(call'.right_raw, s_calibration'.right_min,
                                         s_calibration'.right_max, TRUE)
           /\ session = {} => (call'.left = 0 /\ call'.right = 0) ]_vars

\* C28 witness: the only packet counted so far was the only sample of a session,
\* ended the session by timeout and was reported as 0 on both channels although
\* its raw values are positive.
C28_Witness ==
  /\ Reported
  /\ s_total_packets = 1
  /\ ~s_is_calibrating
  /\ session = { << call.left_raw, call.right_raw >> }
  /\ s_calibration = CaptureRange
  /\ call.left_raw > 0 /\ call.right_raw > 0
  /\ call.left = 0 /\ call.right = 0

\* C29: deinit and the init that follows it change only the initialized flag and
\* the counters: committed range, calibrated flag, running session, accumulators,
\* start time and duration stay as they were, so a session started before the
\* deinit is still running after the re-init and stop_calibration still commits it.
C29_ReinitKeepsCalibration ==
  [][ /\ (data_processor_deinit \/ data_processor_init)
           => UNCHANGED << calibration_state, usb, session >>
      /\ (data_processor_init /\ ~s_is_initialized /\ s_is_calibrating)
           => /\ s_is_calibrating'
              /\ StopCalibrationReturn' = "ESP_OK" ]_vars

\* C29 witness: a session saw two samples but only one packet is counted, an init
\* having zeroed the counters between the two; the second packet, processed
\* after the re-init, ended the session by timeout and committed both samples.
C29_Witness ==
  /\ Reported
  /\ s_is_initialized
  /\ s_total_packets = 1
  /\ Cardinality(session) = 2
  /\ ~s_is_calibrating
  /\ s_calibration = ExtremesOf(session)

\* C30: init on an initialized subsystem returns ESP_OK and changes nothing,
\* counters and calibration state included; an init step changes the counters
\* only when it finds the subsystem uninitialized, and then sets both to 0.
C30_InitIdempotent ==
  [][ data_processor_init
        => /\ InitReturn = "ESP_OK"
           /\ s_is_initialized => UNCHANGED << core, usb, session >>
           /\ stats' # stats => (~s_is_initialized /\ stats' = << 0, 0 >>) ]_vars

\* C30 witness: the subsystem is initialized, both packets of the run are counted
\* and the last operation was no process call, as after an init that found the
\* subsystem initialized.
C30_Witness ==
  /\ s_is_initialized
  /\ s_total_packets = MaxPackets
  /\ s_total_bytes > s_total_packets
  /\ call = NoCall

\* C31: set_calibration during a running session replaces the committed range at
\* once and leaves the session, its accumulators, start time and duration alone;
\* a packet processed while the session goes on is normalized with the committed
\* range of that moment; the commit by timeout or by stop_calibration then
\* overwrites all four bounds and the flag with the accumulators and
\* calibrated = true.
C31_SetDuringSession ==
  [][ /\ \A calib \in CalibArgs :
           (s_is_calibrating /\ ~calib.null /\ data_processor_set_calibration(calib))
             => /\ s_calibration' = calib.value
                /\ UNCHANGED << s_is_calibrating, s_calibration_start_time,
                                s_calibration_duration_ms, capture, session >>
      /\ (ProcessCalled /\ Reported' /\ s_is_calibrating /\ s_is_calibrating')
           => /\ s_calibration' = s_calibration
              /\ call'.left = NormalizeRef(call'.left_raw, s_calibration.left_min,
                                           s_calibration.left_max, s_calibration.calibrated)
              /\ call'.right = NormalizeRef(call'.right_raw, s_calibration.right_min,
                                            s_calibration.right_max, s_calibration.calibrated)
      /\ (/\ s_is_calibrating /\ ~s_is_calibrating'
          /\ (ProcessCalled \/ data_processor_stop_calibration))
           => s_calibration' = CaptureRange' ]_vars

\* C31 witness: a session with samples is running, the committed range is a
\* supplied one that differs from the accumulators, and the last packet was
\* rescaled with it.
C31_Witness ==
  /\ Reported
  /\ s_is_calibrating
  /\ session # {}
  /\ s_calibration \in SetRanges
  /\ s_calibration # CaptureRange
  /\ call.left # call.left_raw

\* ------------------------------------------------------------------ start-up runs
\* app_main runs init_system call by call; the ESP-NOW driver calls
\* espnow_recv_cb for every packet it receives while espnow_handler.c has its
\* callbacks registered with it; once init_system returned, the handler's API is
\* called in any order.
RecvInfos == { [null |-> TRUE, src_addr |-> NULL], [null |-> FALSE, src_addr |-> MAC] }

\* the callbacks espnow_handler_register_recv_callback may be given
Callbacks == { NULL, on_espnow_data_received }

BootInit ==
  /\ s_is_initialized = FALSE
  /\ s_total_packets = 0
  /\ s_total_bytes = 0
  /\ s_calibration = [left_min |-> 0, left_max |-> 4095, right_min |-> 0, right_max |-> 4095,
                      calibrated |-> FALSE]
  /\ s_is_calibrating = FALSE
  /\ s_calibration_start_time = 0
  /\ s_calibration_duration_ms = 0
  /\ s_calib_left_min = 4095
  /\ s_calib_left_max = 0
  /\ s_calib_right_min = 4095
  /\ s_calib_right_max = 0
  /\ s_is_mounted = FALSE
  /\ s_report = [left_clutch |-> 0, right_clutch |-> 0]
  /\ now = 0
  /\ call = NoCall
  /\ session = {}
  /\ delivered = 0
  /\ frame = Idle
  /\ snapshot = NoSnapshot
  /\ boot = "usb_comm_init"
  /\ espnow_is_initialized = FALSE
  /\ s_recv_callback = NULL

\* init_system: usb_comm_init returns ESP_OK, or ESP_ERROR_CHECK aborts when the
\* TinyUSB driver is not installed
usb_comm_init(installed) ==
  /\ boot = "usb_comm_init"
  /\ IF installed
       THEN /\ s_report' = [left_clutch |-> 0, right_clutch |-> 0]
            /\ boot' = "data_processor_init"
       ELSE /\ boot' = "aborted"
            /\ UNCHANGED s_report
  /\ call' = NoCall
  /\ UNCHANGED << core, s_is_mounted, now, session, delivered, frame, snapshot, espnow >>

\* init_system: data_processor_init
InitSystemDataProcessor ==
  /\ boot = "data_processor_init"
  /\ IF s_is_initialized
       THEN UNCHANGED << s_total_packets, s_total_bytes, s_is_initialized >>
       ELSE /\ s_total_packets' = 0
            /\ s_total_bytes' = 0
            /\ s_is_initialized' = TRUE
  /\ boot' = IF InitReturn = "ESP_OK" THEN "espnow_handler_init" ELSE "failed"
  /\ call' = NoCall
  /\ UNCHANGED << calibration_state, usb, now, session, delivered, frame, snapshot, espnow >>

\* espnow_handler_init: the return value and the initialized flag afterwards, for
\* an esp_now_init that succeeds or fails
EspnowInitOutcome(esp_now_ok) ==
  IF espnow_is_initialized THEN [ret |-> "ESP_OK", initialized |-> TRUE]
  ELSE IF ~esp_now_ok THEN [ret |-> "ESP_FAIL", initialized |-> FALSE]
  ELSE [ret |-> "ESP_OK", initialized |-> TRUE]

\* init_system: espnow_handler_init
InitSystemEspnow(esp_now_ok) ==
  LET o == EspnowInitOutcome(esp_now_ok) IN
  /\ boot = "espnow_handler_init"
  /\ espnow_is_initialized' = o.initialized
  /\ boot' = IF o.ret = "ESP_OK" THEN "register" ELSE "failed"
  /\ call' = NoCall
  /\ UNCHANGED << core, usb, now, session, delivered, frame, snapshot, s_recv_callback >>

\* init_system: espnow_handler_register_recv_callback(on_espnow_data_received)
InitSystemRegister ==
  /\ boot = "register"
  /\ s_recv_callback' = on_espnow_data_received
  /\ boot' = "running"
  /\ call' = NoCall
  /\ UNCHANGED << core, usb, now, session, delivered, frame, snapshot,
                  espnow_is_initialized >>

espnow_handler_init(esp_now_ok) ==
  /\ boot = "running"
  /\ espnow_is_initialized' = EspnowInitOutcome(esp_now_ok).initialized
  /\ call' = NoCall
  /\ UNCHANGED << core, usb, now, session, delivered, frame, snapshot, boot,
                  s_recv_callback >>

\* mutant: deinit leaves the registered callback in place
espnow_handler_deinit_KeepsCallback ==
  /\ boot = "running"
  /\ IF ~espnow_is_initialized
       THEN UNCHANGED espnow
       ELSE /\ espnow_is_initialized' = FALSE
            /\ UNCHANGED s_recv_callback
  /\ call' = NoCall
  /\ UNCHANGED << core, usb, now, session, delivered, frame, snapshot, boot >>

espnow_handler_deinit ==
  /\ boot = "running"
  /\ IF ~espnow_is_initialized
       THEN UNCHANGED espnow
       ELSE /\ espnow_is_initialized' = FALSE
            /\ s_recv_callback' = NULL
  /\ call' = NoCall
  /\ UNCHANGED << core, usb, now, session, delivered, frame, snapshot, boot >>

espnow_handler_register_recv_callback(callback) ==
  /\ boot = "running"
  /\ IF callback = NULL
       THEN UNCHANGED s_recv_callback
       ELSE s_recv_callback' = callback
  /\ call' = NoCall
  /\ UNCHANGED << core, usb, now, session, delivered, frame, snapshot, boot,
                  espnow_is_initialized >>

\* the driver hands a received packet to espnow_recv_cb, which passes it to the
\* registered callback, on_espnow_data_received, and so to the processor
espnow_recv_cb(recv_info, data, len) ==
  /\ espnow_is_initialized
  /\ IF recv_info.null \/ data.null \/ len <= 0 \/ s_recv_callback = NULL
       THEN /\ call' = NoCall
            /\ UNCHANGED << core, usb, now, session, delivered, tasks >>
       ELSE data_processor_process_espnow_data(recv_info.src_addr, data, len, TRUE)

\* the TinyUSB driver is installed: the host may mount and unmount the device
DriverInstalled == boot \notin { "usb_comm_init", "aborted" }

BootNext ==
  \/ \E installed \in BOOLEAN : usb_comm_init(installed)
  \/ DriverInstalled /\ tud_mount_cb
  \/ DriverInstalled /\ tud_umount_cb
  \/ InitSystemDataProcessor
  \/ \E esp_now_ok \in BOOLEAN : InitSystemEspnow(esp_now_ok)
  \/ InitSystemRegister
  \/ \E esp_now_ok \in BOOLEAN : espnow_handler_init(esp_now_ok)
  \/ espnow_handler_deinit
  \/ \E callback \in Callbacks : espnow_handler_register_recv_callback(callback)
  \/ \E recv_info \in RecvInfos, a \in ProcessArgs : espnow_recv_cb(recv_info, a[2], a[3])

BootSpec == BootInit /\ [][BootNext]_vars

\* C32: a packet reaches the processor only through a registered callback:
\* espnow_recv_cb drops packets with absent sender info, absent data or length
\* <= 0 and packets that arrive while no callback is registered;
\* espnow_handler_deinit clears the callback and espnow_handler_init does not
\* restore it; and every packet that reaches the processor does so after
\* init_system went through usb_comm_init and data_processor_init.
C32_OnlyThroughCallback ==
  [][ /\ ProcessCalled
           => /\ espnow_is_initialized
              /\ s_recv_callback # NULL
              /\ boot = "running"
              /\ s_is_initialized
              /\ call'.ret \notin { "ESP_ERR_INVALID_ARG", "ESP_ERR_INVALID_STATE" }
      /\ (espnow_handler_deinit /\ espnow_is_initialized)
           => (~espnow_is_initialized' /\ s_recv_callback' = NULL)
      /\ \A esp_now_ok \in BOOLEAN :
           espnow_handler_init(esp_now_ok) => s_recv_callback' = s_recv_callback ]_vars

\* C32 witness: packets reached the processor earlier; the handler was then
\* deinitialized and initialized again, and no callback is registered.
C32_Witness ==
  /\ boot = "running"
  /\ espnow_is_initialized
  /\ s_recv_callback = NULL
  /\ delivered > 0
  /\ s_total_packets = delivered
  /\ call = NoCall

\* ------------------------------------------------------------------ scaling runs
\* usb_comm_send_report called on a mounted device with every value of the 12-bit
\* scale its header documents, on the left channel, and beside it on the right
\* channel the same value, the next one and the mirrored one.
AdcValues == 0..4095

ScaleInputs ==
  UNION { { << v, v >>, << v, IF v < 4095 THEN v + 1 ELSE v >>, << v, 4095 - v >> } :
          v \in AdcValues }

ScaleInit ==
  /\ s_is_initialized = TRUE
  /\ s_total_packets = 0
  /\ s_total_bytes = 0
  /\ s_calibration = [left_min |-> 0, left_max |-> 4095, right_min |-> 0, right_max |-> 4095,
                      calibrated |-> FALSE]
  /\ s_is_calibrating = FALSE
  /\ s_calibration_start_time = 0
  /\ s_calibration_duration_ms = 0
  /\ s_calib_left_min = 4095
  /\ s_calib_left_max = 0
  /\ s_calib_right_min = 4095
  /\ s_calib_right_max = 0
  /\ s_is_mounted = TRUE
  /\ s_report = [left_clutch |-> 0, right_clutch |-> 0]
  /\ now = 0
  /\ call = NoCall
  /\ session = {}
  /\ delivered = 0
  /\ \E p \in ScaleInputs :
       frame = [at |-> "usb_comm_send_report", left_clutch |-> p[1], right_clutch |-> p[2]]
  /\ snapshot = NoSnapshot
  /\ boot = "running"
  /\ espnow_is_initialized = TRUE
  /\ s_recv_callback = on_espnow_data_received

\* esp_err_t usb_comm_send_report(uint16_t left_clutch, uint16_t right_clutch)
usb_comm_send_report(ready) ==
  LET u == UsbSendReport(s_is_mounted, ready, s_report, frame.left_clutch,
                         frame.right_clutch) IN
  /\ frame.at = "usb_comm_send_report"
  /\ s_report' = u.report
  /\ call' = [ret |-> "none", called |-> TRUE, left |-> frame.left_clutch,
              right |-> frame.right_clutch, sink_ret |-> u.ret]
  /\ frame' = Idle
  /\ UNCHANGED << core, s_is_mounted, now, session, delivered, snapshot, boot, espnow >>

ScaleNext == \E ready \in BOOLEAN : usb_comm_send_report(ready)

ScaleSpec == ScaleInit /\ [][ScaleNext]_vars

====
